---- MODULE Spec2Model ----
(***************************************************************************)
(* find-overlap.py: search a sequence of per-block MD5 hashes for the      *)
(* overlapping range left behind by an interrupted resize/move.            *)
(*                                                                         *)
(* Block numbers are 0-based as in the source; TLA+ sequences are 1-based, *)
(* so block b of md5_hashes is md5_hashes[b+1] (see PyAt).  A Python dict  *)
(* is a sequence of [key, value] records in insertion order.  A hash is    *)
(* opaque to the program (only compared for equality and used as a dict    *)
(* key), so hashes are the integers 1..MaxFp.                              *)
(***************************************************************************)
EXTENDS Integers, Sequences, FiniteSets, TLC

VARIABLES md5_hashes, matching_hashes, offset_blocks, candidate_ranges,
          median_blocks, raised, pc, py, dump_hashes_fname, hashes_file,
          read_md5_hashes, read_candidate_ranges, rerun_candidate_ranges,
          rerun_median_blocks

vars == <<md5_hashes, matching_hashes, offset_blocks, candidate_ranges,
          median_blocks, raised, pc, py, dump_hashes_fname, hashes_file,
          read_md5_hashes, read_candidate_ranges, rerun_candidate_ranges,
          rerun_median_blocks>>

(* Bounds of the model. *)
MaxLen == 7
MaxFp == 4
MaxLongLen == 9
MaxLongFp == 2
MaxRerunLen == 9
MaxDumpLen == 5
MaxDumpTail == 2
MaxBlknum == 2
MaxGroups == 2
MaxDumpFp == 3

(***************************************************************************)
(* Python lists, dicts and interpreters                                    *)
(***************************************************************************)

(* The interpreters `#!/usr/bin/env python` can name: Python 2 and 3. *)
PyVersions == {2, 3}

(* Orders in which a dict may be iterated: insertion order (CPython 3.7    *)
(* and later), or another order (earlier interpreters iterate in hash      *)
(* order, which the language leaves unspecified).                          *)
IterOrders == {"insertion", "reversed"}

None == "None"

PyIndexOK(list, i) == (-Len(list)) <= i /\ i < Len(list)

PyAt(list, i) == IF i >= 0 THEN list[i + 1] ELSE list[Len(list) + i + 1]

Reverse(list) == [i \in 1..Len(list) |-> list[Len(list) + 1 - i]]

HasKey(dict, key) == \E i \in 1..Len(dict) : dict[i].key = key

Lookup(dict, key) == dict[CHOOSE i \in 1..Len(dict) : dict[i].key = key].value

DictAppend(dict, key, item) ==
    [i \in 1..Len(dict) |->
        IF dict[i].key = key
        THEN [key |-> key, value |-> Append(dict[i].value, item)]
        ELSE dict[i]]

DictInsert(dict, key, val) == Append(dict, [key |-> key, value |-> val])

Keys(dict) == {dict[i].key : i \in 1..Len(dict)}

Iterate(dict, order) == IF order = "insertion" THEN dict ELSE Reverse(dict)

RECURSIVE InsertAsc(_, _)
InsertAsc(sorted, n) ==
    IF sorted = <<>> THEN <<n>>
    ELSE IF n < Head(sorted) THEN <<n>> \o sorted
    ELSE <<Head(sorted)>> \o InsertAsc(Tail(sorted), n)

RECURSIVE SortAsc(_)
SortAsc(list) ==
    IF list = <<>> THEN <<>>
    ELSE InsertAsc(SortAsc(SubSeq(list, 1, Len(list) - 1)), list[Len(list)])

(***************************************************************************)
(* generate_matching_hashes                                                *)
(***************************************************************************)

RECURSIVE gmh_loop(_, _, _)
gmh_loop(hashes, blknum, mh) ==
    IF blknum >= Len(hashes) THEN mh
    ELSE LET md5_hash == PyAt(hashes, blknum)
         IN  gmh_loop(hashes, blknum + 1,
                      IF HasKey(mh, md5_hash)
                      THEN DictAppend(mh, md5_hash, blknum)
                      ELSE DictInsert(mh, md5_hash, <<blknum>>))

(* Mutant: a new key's list is created holding the block number and the    *)
(* block number is then appended to it again.                              *)
RECURSIVE gmh_loop_append_twice(_, _, _)
gmh_loop_append_twice(hashes, blknum, mh) ==
    IF blknum >= Len(hashes) THEN mh
    ELSE LET md5_hash == PyAt(hashes, blknum)
         IN  gmh_loop_append_twice(hashes, blknum + 1,
                 IF HasKey(mh, md5_hash)
                 THEN DictAppend(mh, md5_hash, blknum)
                 ELSE DictInsert(mh, md5_hash, <<blknum, blknum>>))

generate_matching_hashes_append_twice(hashes) ==
    gmh_loop_append_twice(hashes, 0, <<>>)

(* Mutant: the block numbers are counted from 1, so block 0 is skipped. *)
generate_matching_hashes_from_1(hashes) == gmh_loop(hashes, 1, <<>>)

generate_matching_hashes(hashes) == gmh_loop(hashes, 0, <<>>)

(***************************************************************************)
(* eliminate_non_duplicates                                                *)
(***************************************************************************)

(* Mutant: blocks with 5 copies are kept. *)
is_non_duplicate_5(item) == Len(item.value) < 2 \/ Len(item.value) > 5

is_non_duplicate(item) == Len(item.value) < 2 \/ Len(item.value) > 4

KeepItem(item) == ~is_non_duplicate(item)

eliminate_non_duplicates(mh) == SelectSeq(mh, KeepItem)

(***************************************************************************)
(* compute_offset_blocks                                                   *)
(***************************************************************************)

(* for snd_dup_blknum in blknums_copy: ... *)
RECURSIVE cob_inner(_, _, _, _)
cob_inner(ob, fst_dup_blknum, blknums_copy, i) ==
    IF i > Len(blknums_copy) THEN ob
    ELSE LET snd_dup_blknum == blknums_copy[i]
             offset == snd_dup_blknum - fst_dup_blknum
         IN  cob_inner(IF HasKey(ob, offset)
                       THEN DictAppend(ob, offset, fst_dup_blknum)
                       ELSE DictInsert(ob, offset, <<fst_dup_blknum>>),
                       fst_dup_blknum, blknums_copy, i + 1)

(* Mutant: each block is paired with the next block of the list only. *)
RECURSIVE cob_while_adjacent(_, _)
cob_while_adjacent(ob, blknums_copy) ==
    IF Len(blknums_copy) >= 2
    THEN cob_while_adjacent(
             cob_inner(ob, Head(blknums_copy),
                       SubSeq(Tail(blknums_copy), 1, 1), 1),
             Tail(blknums_copy))
    ELSE ob

(* while len(blknums_copy) >= 2: ... *)
RECURSIVE cob_while(_, _)
cob_while(ob, blknums_copy) ==
    IF Len(blknums_copy) >= 2
    THEN cob_while(cob_inner(ob, Head(blknums_copy), Tail(blknums_copy), 1),
                   Tail(blknums_copy))
    ELSE ob

(* for blknums in matching_hashes.values(): ... *)
RECURSIVE cob_outer(_, _, _)
cob_outer(ob, items, i) ==
    IF i > Len(items) THEN ob
    ELSE cob_outer(cob_while(ob, items[i].value), items, i + 1)

sort_offset_blocks(ob) ==
    [i \in 1..Len(ob) |-> [key |-> ob[i].key, value |-> SortAsc(ob[i].value)]]

(* Mutant: the lists of block numbers are left as they were built. *)
compute_offset_blocks_unsorted(mh, order) ==
    cob_outer(<<>>, Iterate(mh, order), 1)

compute_offset_blocks(mh, order) ==
    sort_offset_blocks(cob_outer(<<>>, Iterate(mh, order), 1))

(***************************************************************************)
(* find_start_matching_block / find_stop_matching_block                    *)
(***************************************************************************)

(* Returned in place of a block number when a list index is out of range. *)
IndexError == -1

(* Mutant: the backward search never tests block 0. *)
RECURSIVE find_start_matching_block_not_0(_, _, _)
find_start_matching_block_not_0(start, offset, hashes) ==
    IF start > 1
    THEN LET test == start - 1
         IN  IF ~PyIndexOK(hashes, test) \/ ~PyIndexOK(hashes, test + offset)
             THEN IndexError
             ELSE IF PyAt(hashes, test) # PyAt(hashes, test + offset)
             THEN start
             ELSE find_start_matching_block_not_0(test, offset, hashes)
    ELSE start

RECURSIVE find_start_matching_block(_, _, _)
find_start_matching_block(start, offset, hashes) ==
    IF start > 0
    THEN LET test == start - 1
         IN  IF ~PyIndexOK(hashes, test) \/ ~PyIndexOK(hashes, test + offset)
             THEN IndexError
             ELSE IF PyAt(hashes, test) # PyAt(hashes, test + offset)
             THEN start
             ELSE find_start_matching_block(test, offset, hashes)
    ELSE start

(* Mutant: the forward search gives up one block before the end. *)
RECURSIVE find_stop_matching_block_short(_, _, _)
find_stop_matching_block_short(stop, offset, hashes) ==
    IF stop + offset < Len(hashes) - 1
    THEN IF ~PyIndexOK(hashes, stop) \/ ~PyIndexOK(hashes, stop + offset)
         THEN IndexError
         ELSE IF PyAt(hashes, stop) # PyAt(hashes, stop + offset)
         THEN stop
         ELSE find_stop_matching_block_short(stop + 1, offset, hashes)
    ELSE stop

(* Mutant: the forward search also tests the block at stop + offset equal  *)
(* to the number of blocks.                                                *)
RECURSIVE find_stop_matching_block_past_end(_, _, _)
find_stop_matching_block_past_end(stop, offset, hashes) ==
    IF stop + offset <= Len(hashes)
    THEN IF ~PyIndexOK(hashes, stop) \/ ~PyIndexOK(hashes, stop + offset)
         THEN IndexError
         ELSE IF PyAt(hashes, stop) # PyAt(hashes, stop + offset)
         THEN stop
         ELSE find_stop_matching_block_past_end(stop + 1, offset, hashes)
    ELSE stop

RECURSIVE find_stop_matching_block(_, _, _)
find_stop_matching_block(stop, offset, hashes) ==
    IF stop + offset < Len(hashes)
    THEN IF ~PyIndexOK(hashes, stop) \/ ~PyIndexOK(hashes, stop + offset)
         THEN IndexError
         ELSE IF PyAt(hashes, stop) # PyAt(hashes, stop + offset)
         THEN stop
         ELSE find_stop_matching_block(stop + 1, offset, hashes)
    ELSE stop

(* The positions of md5_hashes that find_start_matching_block reads, in    *)
(* the order it reads them: test and test + offset in each turn of the     *)
(* loop, up to the turn that returns or raises.                            *)
RECURSIVE find_start_reads(_, _, _)
find_start_reads(start, offset, hashes) ==
    IF start > 0
    THEN LET test == start - 1
         IN  <<test, test + offset>> \o
             (IF ~PyIndexOK(hashes, test) \/ ~PyIndexOK(hashes, test + offset)
              THEN <<>>
              ELSE IF PyAt(hashes, test) # PyAt(hashes, test + offset)
              THEN <<>>
              ELSE find_start_reads(test, offset, hashes))
    ELSE <<>>

(* The positions of md5_hashes that find_stop_matching_block reads: stop   *)
(* and stop + offset in each turn of the loop.                             *)
RECURSIVE find_stop_reads(_, _, _)
find_stop_reads(stop, offset, hashes) ==
    IF stop + offset < Len(hashes)
    THEN <<stop, stop + offset>> \o
         (IF ~PyIndexOK(hashes, stop) \/ ~PyIndexOK(hashes, stop + offset)
          THEN <<>>
          ELSE IF PyAt(hashes, stop) # PyAt(hashes, stop + offset)
          THEN <<>>
          ELSE find_stop_reads(stop + 1, offset, hashes))
    ELSE <<>>

(***************************************************************************)
(* compute_candidate_ranges                                                *)
(***************************************************************************)

(* int(round(len(blocks) / 2)): Python 2 divides two ints with floor       *)
(* division; Python 3 divides exactly and rounds a half to the even        *)
(* neighbour.                                                              *)
median_index(n, version) ==
    IF version = 2 THEN n \div 2
    ELSE IF n % 2 = 0 THEN n \div 2
    ELSE IF (n \div 2) % 2 = 0 THEN n \div 2
    ELSE (n \div 2) + 1

(* float(matching_size) / float(offset) as an exact fraction. *)
Rank(matching_size, offset) == [num |-> matching_size, den |-> offset]

RankLess(r1, r2) == r1.num * r2.den < r2.num * r1.den

RankEqual(r1, r2) == r1.num * r2.den = r2.num * r1.den

Candidate(offset, start_block, stop_block, total_blocks, rank) ==
    [offset |-> offset, start_block |-> start_block, stop_block |-> stop_block,
     total_blocks |-> total_blocks, rank |-> rank]

(* Mutant: a candidate is placed before the candidates of equal rank. *)
RECURSIVE InsertByRank_unstable(_, _)
InsertByRank_unstable(sorted, c) ==
    IF sorted = <<>> THEN <<c>>
    ELSE IF ~RankLess(c.rank, Head(sorted).rank) THEN <<c>> \o sorted
    ELSE <<Head(sorted)>> \o InsertByRank_unstable(Tail(sorted), c)

(* list.sort(key=rank, reverse=True): stable, descending. *)
RECURSIVE InsertByRank(_, _)
InsertByRank(sorted, c) ==
    IF sorted = <<>> THEN <<c>>
    ELSE IF RankLess(Head(sorted).rank, c.rank) THEN <<c>> \o sorted
    ELSE <<Head(sorted)>> \o InsertByRank(Tail(sorted), c)

RECURSIVE sort_by_rank(_)
sort_by_rank(list) ==
    IF list = <<>> THEN <<>>
    ELSE InsertByRank(sort_by_rank(SubSeq(list, 1, Len(list) - 1)),
                      list[Len(list)])

(* for offset, blocks in offset_blocks.items(): ...                        *)
(* acc.ranges is candidate_ranges, acc.medians the blocks[median_index]    *)
(* of each offset in iteration order, acc.raised the exception raised.     *)
RECURSIVE ccr_loop(_, _, _, _, _)
ccr_loop(acc, items, i, hashes, version) ==
    IF i > Len(items) \/ acc.raised # None THEN acc
    ELSE LET offset == items[i].key
             blocks == items[i].value
             mi == median_index(Len(blocks), version)
         IN  IF ~PyIndexOK(blocks, mi)
             THEN [acc EXCEPT !.raised = "IndexError"]
             ELSE LET median == PyAt(blocks, mi)
                      start_block ==
                          find_start_matching_block(median, offset, hashes)
                      stop_block ==
                          find_stop_matching_block(median, offset, hashes)
                      matching_size == stop_block - start_block
                  IN  IF start_block = IndexError \/ stop_block = IndexError
                      THEN [acc EXCEPT !.raised = "IndexError"]
                      ELSE IF offset = 0
                      THEN [acc EXCEPT !.raised = "ZeroDivisionError"]
                      ELSE ccr_loop(
                          [ranges |-> Append(acc.ranges,
                               Candidate(offset, start_block, stop_block,
                                         Len(hashes),
                                         Rank(matching_size, offset))),
                           medians |-> Append(acc.medians,
                               [offset |-> offset, block |-> median]),
                           raised |-> None],
                          items, i + 1, hashes, version)

compute_candidate_ranges(ob, hashes, order, version) ==
    LET r == ccr_loop([ranges |-> <<>>, medians |-> <<>>, raised |-> None],
                      Iterate(ob, order), 1, hashes, version)
    IN  [r EXCEPT !.ranges = sort_by_rank(r.ranges)]

(***************************************************************************)
(* candidate_is_full_range / candidate_range_is_large_enough               *)
(***************************************************************************)

candidate_is_full_range(candidate_range) ==
    LET matching_size ==
            candidate_range.stop_block - candidate_range.start_block
    IN  matching_size + 1 >= candidate_range.offset

(* Mutant: a matching range of 2 blocks is accepted. *)
candidate_range_is_large_enough_2(candidate_range) ==
    LET matching_size ==
            candidate_range.stop_block - candidate_range.start_block
    IN  matching_size >= 2

candidate_range_is_large_enough(candidate_range) ==
    LET matching_size ==
            candidate_range.stop_block - candidate_range.start_block
    IN  matching_size > 2

filter_candidate_ranges(ranges) ==
    SelectSeq(SelectSeq(ranges, candidate_is_full_range),
              candidate_range_is_large_enough)

(***************************************************************************)
(* dump_hashes / find_overlap_from_open_hashes_file                        *)
(***************************************************************************)

DigitChars == <<"0", "1", "2", "3", "4", "5", "6", "7", "8", "9">>

DecimalBase == 10

(* '%d' % n for n >= 0 *)
RECURSIVE FormatDecimal(_)
FormatDecimal(n) ==
    IF n < DecimalBase THEN <<DigitChars[n + 1]>>
    ELSE FormatDecimal(n \div DecimalBase)
             \o <<DigitChars[(n % DecimalBase) + 1]>>

(* Mutant: the number of blocks with the hash is written in place of the   *)
(* first of them.                                                          *)
SubstituteHash_len(md5_hash, mh) ==
    <<"#">> \o FormatDecimal(Len(Lookup(mh, md5_hash))) \o <<"\n">>

(* '#%d\n' % (matching_hashes[md5_hash][0]) *)
SubstituteHash(md5_hash, mh) ==
    <<"#">> \o FormatDecimal(PyAt(Lookup(mh, md5_hash), 0)) \o <<"\n">>

(* The text written to the dump file. *)
RECURSIVE dump_hashes(_, _)
dump_hashes(hashes, mh) ==
    IF hashes = <<>> THEN <<>>
    ELSE SubstituteHash(Head(hashes), mh) \o dump_hashes(Tail(hashes), mh)

(* str.splitlines() of a text whose only line boundary is "\n" *)
RECURSIVE splitlines_loop(_, _, _)
splitlines_loop(text, line, lines) ==
    IF text = <<>>
    THEN IF line = <<>> THEN lines ELSE Append(lines, line)
    ELSE IF Head(text) = "\n"
    THEN splitlines_loop(Tail(text), <<>>, Append(lines, line))
    ELSE splitlines_loop(Tail(text), Append(line, Head(text)), lines)

splitlines(text) == splitlines_loop(text, <<>>, <<>>)

(***************************************************************************)
(* find_overlap_from_hashes, as one call                                   *)
(***************************************************************************)

find_overlap_from_hashes(hashes, mh_order, ob_order, version) ==
    LET mh == eliminate_non_duplicates(generate_matching_hashes(hashes))
        ob == compute_offset_blocks(mh, mh_order)
        r == compute_candidate_ranges(ob, hashes, ob_order, version)
    IN  [r EXCEPT !.ranges = IF r.raised = None
                             THEN filter_candidate_ranges(r.ranges)
                             ELSE <<>>]

(***************************************************************************)
(* Inputs                                                                  *)
(***************************************************************************)

(* Hash sequences up to renaming of the hash values: the first block has   *)
(* hash 1 and each new hash value is the least one not seen before.        *)
IsCanonical(s) ==
    \A i \in 1..Len(s) : s[i] = 1 \/ \E j \in 1..(i - 1) : s[j] = s[i] - 1

HashSeqs(maxlen, maxfp) ==
    UNION {{s \in [1..n -> 1..maxfp] : IsCanonical(s)} : n \in 0..maxlen}

(* Sequences of blocks that hold one or the other of two hashes: the       *)
(* shortest sequence for which two candidates of equal rank are returned   *)
(* is one of these, of 9 blocks.                                           *)
TwoHashSeqs(maxlen) == HashSeqs(maxlen, 2)

(***************************************************************************)
(* State machine                                                           *)
(***************************************************************************)

InitCommon ==
    /\ matching_hashes = <<>>
    /\ offset_blocks = <<>>
    /\ candidate_ranges = <<>>
    /\ median_blocks = <<>>
    /\ raised = None
    /\ pc = "start"
    /\ py \in PyVersions
    /\ hashes_file = <<>>
    /\ read_md5_hashes = <<>>
    /\ read_candidate_ranges = <<>>
    /\ rerun_candidate_ranges = <<>>
    /\ rerun_median_blocks = <<>>

Init ==
    /\ md5_hashes \in HashSeqs(MaxLen, MaxFp)
                          \cup HashSeqs(MaxLongLen, MaxLongFp)
    /\ dump_hashes_fname = None
    /\ InitCommon

(* compute_offset_blocks called on a dictionary of its own, as the unit    *)
(* test does: any lists of ascending block numbers, under keys 1, 2, ...   *)
AscendingLists(maxblknum) ==
    UNION {{list \in [1..n -> 0..maxblknum] :
               \A i, j \in 1..n : i < j => list[i] < list[j]} :
           n \in 0..(maxblknum + 1)}

MatchingHashesDicts(maxgroups, maxblknum) ==
    UNION {{[i \in 1..n |-> [key |-> i, value |-> lists[i]]] :
               lists \in [1..n -> AscendingLists(maxblknum)]} :
           n \in 0..maxgroups}

InitOffsetBlocks ==
    /\ md5_hashes = <<>>
    /\ dump_hashes_fname = None
    /\ matching_hashes \in MatchingHashesDicts(MaxGroups, MaxBlknum)
    /\ offset_blocks = <<>>
    /\ candidate_ranges = <<>>
    /\ median_blocks = <<>>
    /\ raised = None
    /\ pc = "offsets"
    /\ py \in PyVersions
    /\ hashes_file = <<>>
    /\ read_md5_hashes = <<>>
    /\ read_candidate_ranges = <<>>
    /\ rerun_candidate_ranges = <<>>
    /\ rerun_median_blocks = <<>>

(* Sequences long enough for a substitute hash of two digits: DecimalBase  *)
(* blocks of distinct hashes followed by a few more blocks.                *)
DistinctHashes == [i \in 1..DecimalBase |-> i]

TwoDigitHashSeqs(maxtail) ==
    {DistinctHashes \o tail : tail \in
        UNION {{t \in [1..n -> 1..(DecimalBase + maxtail)] :
                   IsCanonical(DistinctHashes \o t)} : n \in 0..maxtail}}

InitRerun ==
    /\ md5_hashes \in TwoHashSeqs(MaxRerunLen)
    /\ dump_hashes_fname = None
    /\ InitCommon

InitDump ==
    /\ md5_hashes \in HashSeqs(MaxDumpLen, MaxDumpFp) \cup TwoDigitHashSeqs(MaxDumpTail)
    /\ dump_hashes_fname = "hashes.txt"
    /\ InitCommon

GenerateMatchingHashes ==
    /\ pc = "start"
    /\ matching_hashes' = generate_matching_hashes(md5_hashes)
    /\ pc' = IF dump_hashes_fname # None THEN "dump" ELSE "eliminate"
    /\ UNCHANGED <<md5_hashes, offset_blocks, candidate_ranges, median_blocks,
                   raised, py, dump_hashes_fname, hashes_file,
                   read_md5_hashes, read_candidate_ranges,
                   rerun_candidate_ranges, rerun_median_blocks>>

DumpHashes ==
    /\ pc = "dump"
    /\ hashes_file' = dump_hashes(md5_hashes, matching_hashes)
    /\ pc' = "eliminate"
    /\ UNCHANGED <<md5_hashes, matching_hashes, offset_blocks,
                   candidate_ranges, median_blocks, raised, py,
                   dump_hashes_fname, read_md5_hashes, read_candidate_ranges,
                   rerun_candidate_ranges, rerun_median_blocks>>

EliminateNonDuplicates ==
    /\ pc = "eliminate"
    /\ matching_hashes' = eliminate_non_duplicates(matching_hashes)
    /\ pc' = "offsets"
    /\ UNCHANGED <<md5_hashes, offset_blocks, candidate_ranges, median_blocks,
                   raised, py, dump_hashes_fname, hashes_file,
                   read_md5_hashes, read_candidate_ranges,
                   rerun_candidate_ranges, rerun_median_blocks>>

ComputeOffsetBlocks ==
    /\ pc = "offsets"
    /\ \E order \in IterOrders :
           offset_blocks' = compute_offset_blocks(matching_hashes, order)
    /\ pc' = "ranges"
    /\ UNCHANGED <<md5_hashes, matching_hashes, candidate_ranges,
                   median_blocks, raised, py, dump_hashes_fname, hashes_file,
                   read_md5_hashes, read_candidate_ranges,
                   rerun_candidate_ranges, rerun_median_blocks>>

ComputeCandidateRanges ==
    /\ pc = "ranges"
    /\ \E order \in IterOrders :
           \E r \in {compute_candidate_ranges(offset_blocks, md5_hashes,
                                             order, py)} :
               /\ candidate_ranges' = r.ranges
               /\ median_blocks' = r.medians
               /\ raised' = r.raised
               /\ pc' = IF r.raised = None THEN "filter" ELSE "raised"
    /\ UNCHANGED <<md5_hashes, matching_hashes, offset_blocks, py,
                   dump_hashes_fname, hashes_file, read_md5_hashes,
                   read_candidate_ranges, rerun_candidate_ranges,
                   rerun_median_blocks>>

FilterCandidateRanges ==
    /\ pc = "filter"
    /\ candidate_ranges' = filter_candidate_ranges(candidate_ranges)
    /\ pc' = "done"
    /\ UNCHANGED <<md5_hashes, matching_hashes, offset_blocks, median_blocks,
                   raised, py, dump_hashes_fname, hashes_file,
                   read_md5_hashes, read_candidate_ranges,
                   rerun_candidate_ranges, rerun_median_blocks>>

(* A later run of the program with --read-hashes on the dump file. *)
FindOverlapFromOpenHashesFile ==
    /\ pc = "done"
    /\ dump_hashes_fname # None
    /\ \E mh_order \in IterOrders, ob_order \in IterOrders :
           /\ read_md5_hashes' = splitlines(hashes_file)
           /\ read_candidate_ranges' =
                  find_overlap_from_hashes(read_md5_hashes', mh_order,
                                           ob_order, py).ranges
    /\ pc' = "read"
    /\ UNCHANGED <<md5_hashes, matching_hashes, offset_blocks,
                   candidate_ranges, median_blocks, raised, py,
                   dump_hashes_fname, hashes_file, rerun_candidate_ranges,
                   rerun_median_blocks>>

(* The program is run again on the same hashes. *)
Rerun ==
    /\ pc = "done"
    /\ \E mh_order \in IterOrders, ob_order \in IterOrders :
           \E r \in {find_overlap_from_hashes(md5_hashes, mh_order, ob_order,
                                             py)} :
               /\ rerun_candidate_ranges' = r.ranges
               /\ rerun_median_blocks' = r.medians
    /\ pc' = "rerun"
    /\ UNCHANGED <<md5_hashes, matching_hashes, offset_blocks,
                   candidate_ranges, median_blocks, raised, py,
                   dump_hashes_fname, hashes_file, read_md5_hashes,
                   read_candidate_ranges>>

Next ==
    \/ GenerateMatchingHashes
    \/ EliminateNonDuplicates
    \/ ComputeOffsetBlocks
    \/ ComputeCandidateRanges
    \/ FilterCandidateRanges

NextDump ==
    \/ GenerateMatchingHashes
    \/ DumpHashes
    \/ EliminateNonDuplicates
    \/ ComputeOffsetBlocks
    \/ ComputeCandidateRanges
    \/ FilterCandidateRanges
    \/ FindOverlapFromOpenHashesFile

NextRerun ==
    \/ GenerateMatchingHashes
    \/ EliminateNonDuplicates
    \/ ComputeOffsetBlocks
    \/ ComputeCandidateRanges
    \/ FilterCandidateRanges
    \/ Rerun

NextOffsetBlocks ==
    \/ ComputeOffsetBlocks

Spec == Init /\ [][Next]_vars

SpecOffsetBlocks == InitOffsetBlocks /\ [][NextOffsetBlocks]_vars

SpecDump == InitDump /\ [][NextDump]_vars

SpecRerun == InitRerun /\ [][NextRerun]_vars

(***************************************************************************)
(* Properties                                                              *)
(***************************************************************************)

NumBlocks == Len(md5_hashes)

Blocks == 0..(NumBlocks - 1)

Fp(b) == md5_hashes[b + 1]

MatchingSize(c) == c.stop_block - c.start_block

Elems(list) == {list[i] : i \in 1..Len(list)}

AllDistinct == \A x, y \in Blocks : x # y => Fp(x) # Fp(y)

(* Blocks [a, a+offset) equal blocks [a+offset, a+2*offset) one for one    *)
(* and no other two blocks hold the same hash.                             *)
CleanOverlap(a, offset) ==
    /\ a + 2 * offset <= NumBlocks
    /\ \A i \in 0..(offset - 1) : Fp(a + i) = Fp(a + offset + i)
    /\ \A x, y \in Blocks :
           (x < y /\ Fp(x) = Fp(y)) =>
               \E i \in 0..(offset - 1) : x = a + i /\ y = a + offset + i

ReportsOverlap(a, offset) ==
    /\ Len(candidate_ranges) = 1
    /\ candidate_ranges[1].offset = offset
    /\ candidate_ranges[1].start_block <= a
    /\ candidate_ranges[1].stop_block >= a + offset
    /\ candidate_ranges[1].rank.num = candidate_ranges[1].rank.den

(* C1 as stated: a clean overlap of any offset >= 1 is reported as the     *)
(* single candidate, with that offset, start <= a, stop >= a + offset and  *)
(* rank 1.0.                                                               *)
C1_AnyOffsetReported ==
    pc = "done" =>
        \A a \in Blocks, offset \in 1..NumBlocks :
            CleanOverlap(a, offset) => ReportsOverlap(a, offset)

(* C1 amended: a clean overlap of offset >= 3 is reported as the single    *)
(* candidate, with that offset, start <= a, stop >= a + offset and rank    *)
(* 1.0; a clean overlap of offset 1 or 2 is not reported at all.           *)
C1_CleanOverlapReported ==
    pc = "done" =>
        \A a \in Blocks, offset \in 1..NumBlocks :
            CleanOverlap(a, offset) =>
                IF offset >= 3 THEN ReportsOverlap(a, offset)
                ELSE candidate_ranges = <<>>

C1_Witness ==
    /\ pc = "done"
    /\ \E a \in Blocks, offset \in 3..NumBlocks :
           /\ a >= 1
           /\ CleanOverlap(a, offset)
           /\ ReportsOverlap(a, offset)

(* C2: a hash sequence of length 0 or 1, or with all hashes distinct,      *)
(* gives an empty candidate list and raises no exception.                  *)
C2_NoDuplicatesNoCandidates ==
    (NumBlocks <= 1 \/ AllDistinct) =>
        /\ raised = None
        /\ pc # "raised"
        /\ candidate_ranges = <<>>

C2_Witness ==
    /\ pc = "done"
    /\ NumBlocks >= 2
    /\ AllDistinct
    /\ candidate_ranges = <<>>

PassesBothTests(c) ==
    /\ (c.stop_block - c.start_block) + 1 >= c.offset
    /\ (c.stop_block - c.start_block) > 2

(* C3: compute_candidate_ranges produces one candidate per distinct offset *)
(* of the offset bucket, and the returned list holds exactly those of them *)
(* with (stop - start) + 1 >= offset and (stop - start) > 2.               *)
C3_ExactlyThePassingCandidates ==
    [][pc = "filter" =>
          /\ Len(candidate_ranges) = Len(offset_blocks)
          /\ {c.offset : c \in Elems(candidate_ranges)} = Keys(offset_blocks)
          /\ Cardinality(Keys(offset_blocks)) = Len(offset_blocks)
          /\ pc' = "done"
          /\ Elems(candidate_ranges') =
                 {c \in Elems(candidate_ranges) : PassesBothTests(c)}
          /\ Len(candidate_ranges') = Cardinality(Elems(candidate_ranges'))
      ]_vars

(* A candidate was returned and two candidates or more were dropped. *)
C3_Witness ==
    /\ pc = "done"
    /\ candidate_ranges # <<>>
    /\ Len(median_blocks) >= Len(candidate_ranges) + 2

(* Position at which compute_candidate_ranges iterated the offset. *)
IterationPosition(offset) ==
    CHOOSE k \in 1..Len(median_blocks) : median_blocks[k].offset = offset

(* C4: the returned list is in non-increasing order of                     *)
(* rank = (stop - start) / offset, and candidates of equal rank are in the *)
(* order in which their offsets were iterated from the offset bucket.      *)
C4_RankOrderStable ==
    pc = "done" =>
        /\ \A i \in 1..Len(candidate_ranges) :
               LET c == candidate_ranges[i]
               IN  c.rank.num * c.offset = MatchingSize(c) * c.rank.den
        /\ \A i, j \in 1..Len(candidate_ranges) :
               LET ci == candidate_ranges[i]
                   cj == candidate_ranges[j]
               IN  i < j =>
                       /\ MatchingSize(ci) * cj.offset
                              >= MatchingSize(cj) * ci.offset
                       /\ MatchingSize(ci) * cj.offset
                              = MatchingSize(cj) * ci.offset
                          => IterationPosition(ci.offset)
                                 < IterationPosition(cj.offset)

(* Two candidates of equal rank are returned. *)
C4_Witness ==
    /\ pc = "done"
    /\ \E i, j \in 1..Len(candidate_ranges) :
           /\ i < j
           /\ MatchingSize(candidate_ranges[i]) * candidate_ranges[j].offset
                  = MatchingSize(candidate_ranges[j]) * candidate_ranges[i].offset

CopiesOf(b) == Cardinality({x \in Blocks : Fp(x) = Fp(b)})

(* C5: eliminate_non_duplicates removes exactly the entries whose list has *)
(* fewer than 2 or more than 4 block numbers and leaves the others as they *)
(* were; so no block whose hash occurs once or 5 or more times is in any   *)
(* list of the offset blocks built next.                                   *)
C5_OnlyDuplicatesKept ==
    [][/\ pc = "eliminate" =>
              /\ Elems(matching_hashes') =
                     {item \in Elems(matching_hashes) :
                          Len(item.value) >= 2 /\ Len(item.value) <= 4}
              /\ Len(matching_hashes') = Cardinality(Elems(matching_hashes'))
       /\ pc = "offsets" =>
              \A item \in Elems(offset_blocks') :
                  \A b \in Elems(item.value) :
                      CopiesOf(b) >= 2 /\ CopiesOf(b) <= 4
      ]_vars

(* A hash with 5 or more copies was dropped next to a hash with 2 copies   *)
(* that was kept.                                                          *)
C5_Witness ==
    /\ pc = "ranges"
    /\ \E b \in Blocks : CopiesOf(b) >= 5
    /\ \E b \in Blocks : CopiesOf(b) = 2
    /\ offset_blocks # <<>>

Occurrences(list, x) == Cardinality({i \in 1..Len(list) : list[i] = x})

(* Pairs of one list of the dictionary whose smaller block number is fst   *)
(* and whose block numbers are offset apart.                               *)
PairsAt(offset, fst) ==
    {<<g, x, y>> \in (1..Len(matching_hashes)) \X (1..(MaxBlknum + 2))
                      \X (1..(MaxBlknum + 2)) :
        /\ x < y
        /\ y <= Len(matching_hashes[g].value)
        /\ matching_hashes[g].value[x] = fst
        /\ matching_hashes[g].value[y] - matching_hashes[g].value[x] = offset}

(* C6: for a dictionary of ascending lists, compute_offset_blocks returns  *)
(* for each key d the ascending list holding the smaller block number of   *)
(* every pair (adjacent or not) of one list that is d apart, once per      *)
(* pair; keys are positive and no list is empty.                           *)
C6_AllPairsByOffset ==
    pc = "ranges" =>
        /\ Len(offset_blocks) = Cardinality(Keys(offset_blocks))
        /\ \A item \in Elems(offset_blocks) :
               /\ item.key > 0
               /\ item.value # <<>>
               /\ \A i, j \in 1..Len(item.value) :
                      i < j => item.value[i] <= item.value[j]
        /\ \A offset \in 1..(MaxBlknum + 1), fst \in 0..(MaxBlknum + 1) :
               IF HasKey(offset_blocks, offset)
               THEN Occurrences(Lookup(offset_blocks, offset), fst)
                        = Cardinality(PairsAt(offset, fst))
               ELSE PairsAt(offset, fst) = {}

(* A list of three blocks gave all three pairs and a block number occurs   *)
(* twice in one list of the result.                                        *)
C6_Witness ==
    /\ pc = "ranges"
    /\ \E item \in Elems(matching_hashes) : Len(item.value) = 3
    /\ HasKey(offset_blocks, 2)
    /\ \E item \in Elems(offset_blocks) :
           \E i, j \in 1..Len(item.value) :
               i < j /\ item.value[i] = item.value[j]

CandidateOf(offset) ==
    CHOOSE c \in Elems(candidate_ranges) : c.offset = offset

(* C7: the candidate of an offset d is the maximal run of blocks matching  *)
(* at distance d around the block p it was expanded from: fp[p] = fp[p+d], *)
(* start <= p < stop, every block of [start, stop) matches the block d     *)
(* after it, start is 0 or block start-1 does not match, and stop + d is   *)
(* the length or block stop does not match.                                *)
C7_MaximalMatchingRange ==
    pc = "filter" =>
        \A k \in 1..Len(median_blocks) :
            LET d == median_blocks[k].offset
                p == median_blocks[k].block
                c == CandidateOf(d)
            IN  /\ \E item \in Elems(offset_blocks) :
                       item.key = d /\ p \in Elems(item.value)
                /\ p + d < NumBlocks
                /\ Fp(p) = Fp(p + d)
                /\ c.start_block <= p
                /\ p < c.stop_block
                /\ c.stop_block + d <= NumBlocks
                /\ \A i \in c.start_block..(c.stop_block - 1) :
                       Fp(i) = Fp(i + d)
                /\ c.start_block = 0
                       \/ Fp(c.start_block - 1) # Fp(c.start_block - 1 + d)
                /\ c.stop_block + d = NumBlocks
                       \/ Fp(c.stop_block) # Fp(c.stop_block + d)

(* A range that was grown both ways from p and ends at a mismatch at both  *)
(* ends, and a range that was grown back to block 0.                       *)
C7_Witness ==
    /\ pc = "filter"
    /\ \E k \in 1..Len(median_blocks) :
           LET d == median_blocks[k].offset
               p == median_blocks[k].block
               c == CandidateOf(d)
           IN  /\ 0 < c.start_block
               /\ c.start_block < p
               /\ p + 1 < c.stop_block
               /\ c.stop_block + d < NumBlocks
    /\ \E k \in 1..Len(median_blocks) :
           /\ median_blocks[k].block > 0
           /\ CandidateOf(median_blocks[k].offset).start_block = 0

BlocksOf(offset) == Lookup(offset_blocks, offset)

(* C8: for every offset, compute_candidate_ranges expands from the block   *)
(* at position n // 2 of the offset's sorted list of n blocks (the middle  *)
(* one for odd n, the upper middle one for even n).                        *)
C8_ExpandsFromMiddleBlock ==
    pc = "filter" =>
        \A k \in 1..Len(median_blocks) :
            LET blocks == BlocksOf(median_blocks[k].offset)
            IN  median_blocks[k].block = blocks[(Len(blocks) \div 2) + 1]

SameCandidates ==
    /\ Elems(candidate_ranges) = Elems(rerun_candidate_ranges)
    /\ Len(candidate_ranges) = Len(rerun_candidate_ranges)

SameOffsetOrder ==
    /\ Len(median_blocks) = Len(rerun_median_blocks)
    /\ \A k \in 1..Len(median_blocks) :
           median_blocks[k].offset = rerun_median_blocks[k].offset

(* C9 as stated: a second run on the same hashes returns the identical     *)
(* list, whatever the order in which the two dictionaries are iterated.    *)
C9_SameListAnyIterationOrder ==
    pc = "rerun" => candidate_ranges = rerun_candidate_ranges

(* C9 amended: a second run on the same hashes returns the same candidates *)
(* with the same fields whatever the order in which the two dictionaries   *)
(* are iterated, and the identical list whenever the offsets are iterated  *)
(* in the same order; candidates of equal rank follow that order.          *)
C9_SameCandidatesEachRun ==
    pc = "rerun" =>
        /\ SameCandidates
        /\ SameOffsetOrder => candidate_ranges = rerun_candidate_ranges

(* The two runs iterated the offsets in different orders and returned the  *)
(* same two candidates of equal rank, in different orders.                 *)
C9_Witness ==
    /\ pc = "rerun"
    /\ Len(candidate_ranges) = 2
    /\ ~SameOffsetOrder
    /\ SameCandidates
    /\ candidate_ranges # rerun_candidate_ranges

(* C10: the hashes read back from the dump file are as many as the hashes  *)
(* dumped, and two of them are equal exactly when the two hashes dumped at *)
(* their positions were equal.                                             *)
C10_DumpReadRoundTrip ==
    pc = "read" =>
        /\ Len(read_md5_hashes) = Len(md5_hashes)
        /\ \A i, j \in 1..Len(md5_hashes) :
               (read_md5_hashes[i] = read_md5_hashes[j])
                   <=> (md5_hashes[i] = md5_hashes[j])

(* Hashes were read back from substitutes of one and of two digits, some   *)
(* of them equal.                                                          *)
C10_Witness ==
    /\ pc = "read"
    /\ \E i, j \in 1..Len(read_md5_hashes) :
           /\ i < j
           /\ read_md5_hashes[i] = read_md5_hashes[j]
           /\ Len(read_md5_hashes[i]) = 3
    /\ \E i \in 1..Len(read_md5_hashes) : Len(read_md5_hashes[i]) = 2

BlocksWith(h) == {b \in Blocks : Fp(b) = h}

(* C11: generate_matching_hashes returns a mapping whose keys are exactly  *)
(* the distinct hashes of the sequence, each once, and whose value for key *)
(* h is the strictly ascending list of all blocks i with fp[i] = h; the    *)
(* lists are non-empty, pairwise disjoint and together cover 0..n-1.       *)
C11_GroupsByHash ==
    pc \in {"dump", "eliminate"} =>
        /\ Keys(matching_hashes) = {Fp(b) : b \in Blocks}
        /\ Len(matching_hashes) = Cardinality(Keys(matching_hashes))
        /\ \A item \in Elems(matching_hashes) :
               /\ item.value # <<>>
               /\ Elems(item.value) = BlocksWith(item.key)
               /\ \A i, j \in 1..Len(item.value) :
                      i < j => item.value[i] < item.value[j]
        /\ \A k, l \in 1..Len(matching_hashes) :
               k # l => Elems(matching_hashes[k].value)
                            \cap Elems(matching_hashes[l].value) = {}
        /\ UNION {Elems(item.value) : item \in Elems(matching_hashes)}
               = Blocks

(* Three hashes or more were grouped, one of them held by three blocks or  *)
(* more that are not all next to each other.                               *)
C11_Witness ==
    /\ pc = "eliminate"
    /\ Len(matching_hashes) >= 3
    /\ \E item \in Elems(matching_hashes) :
           /\ Len(item.value) >= 3
           /\ item.value[Len(item.value)] - item.value[1] > Len(item.value)

StartReads(k) ==
    find_start_reads(median_blocks[k].block, median_blocks[k].offset,
                     md5_hashes)

StopReads(k) ==
    find_stop_reads(median_blocks[k].block, median_blocks[k].offset,
                    md5_hashes)

(* No exception is raised, the median index of every list of the offset    *)
(* blocks is a position of the list, and every position read by the two    *)
(* searches is a block, each search taking at most one turn per block.     *)
NoReadOutOfRange ==
    /\ raised = None
    /\ pc # "raised"
    /\ \A item \in Elems(offset_blocks) :
           median_index(Len(item.value), py) \in 0..(Len(item.value) - 1)
    /\ \A k \in 1..Len(median_blocks) :
           /\ median_blocks[k].block =
                  LET blocks == BlocksOf(median_blocks[k].offset)
                  IN  blocks[median_index(Len(blocks), py) + 1]
           /\ Elems(StartReads(k)) \subseteq Blocks
           /\ Elems(StopReads(k)) \subseteq Blocks
           /\ Len(StartReads(k)) <= 2 * NumBlocks
           /\ Len(StopReads(k)) <= 2 * NumBlocks

(* The statements of find_overlap_from_hashes in the order in which one    *)
(* call executes them, and the place of pc in that order; "done" is the    *)
(* return of the function.                                                 *)
Statements == <<"start", "dump", "eliminate", "offsets", "ranges", "filter">>

StatementNumber(p) ==
    IF \E i \in 1..Len(Statements) : Statements[i] = p
    THEN CHOOSE i \in 1..Len(Statements) : Statements[i] = p
    ELSE Len(Statements) + 1

(* C12: find_overlap_from_hashes terminates for every hash sequence and    *)
(* never reads outside its lists.  No exception is raised; the median      *)
(* index used by compute_candidate_ranges is a position of the list; every *)
(* position test, test + offset, stop and stop + offset read by the two    *)
(* searches lies in 0..len-1 and each search takes at most one turn per    *)
(* block; every step moves on to a later statement, so that after at most  *)
(* six steps the function has returned; and the hash sequence is never     *)
(* modified.                                                               *)
C12_TotalAndInRange ==
    /\ []NoReadOutOfRange
    /\ [][/\ md5_hashes' = md5_hashes
          /\ StatementNumber(pc') > StatementNumber(pc)
          /\ pc' = "done" <=> pc = "filter"]_vars

(* Under Python 3 a list of three blocks was indexed at its last position, *)
(* and the searches from one median block read block 0 and the last block. *)
C12_Witness ==
    /\ pc = "done"
    /\ py = 3
    /\ \E item \in Elems(offset_blocks) :
           Len(item.value) = 3 /\ median_index(3, py) = 2
    /\ \E k \in 1..Len(median_blocks) :
           /\ 0 \in Elems(StartReads(k))
           /\ (NumBlocks - 1) \in Elems(StopReads(k))
           /\ Len(StartReads(k)) >= 4
           /\ Len(StopReads(k)) >= 4

(* C13: offsets of 2 or less are excluded: every candidate returned by     *)
(* find_overlap_from_hashes has offset > 2, so that up to 4 blocks in a    *)
(* row with the same hash are never reported as an overlapping range.      *)
C13_SmallOffsetsExcluded ==
    pc = "done" =>
        \A c \in Elems(candidate_ranges) : c.offset > 2

====
